---- MODULE Spec2Model ----
(***************************************************************************)
(* The QR archival codec of madhatt159/Python_Projects:                    *)
(*   Encode website to QR code/Encode_to_QRCode.py   (one QR per page)     *)
(*   Encode website to QR codes/testwebtoqr.py       (two QR rows per page)*)
(*   Encode website to QR codes/Decode_from_QRcode.py (the decoder)        *)
(*                                                                         *)
(* A str is a sequence of code points, a bytes object a sequence of        *)
(* numbers in 0..255.  Library conversions (UTF-8, base64, the zlib        *)
(* container) are modelled by what they compute, so that an encode/decode  *)
(* round trip is a fact to be checked and a damaged stream really fails.   *)
(***************************************************************************)
EXTENDS Naturals, Integers, Sequences, FiniteSets

\* ------------------------------------------------------------------------
\* Program constants
\* ------------------------------------------------------------------------

\* Encode_to_QRCode.py
DPI == 600
CHUNK_SIZE == 1000

\* testwebtoqr.py
testwebtoqr_DPI == 600
testwebtoqr_CHUNK_SIZE == 800
ROWS == 2

\* Decode_from_QRcode.py: doc[page_num].get_pixmap(dpi=300)
SCAN_DPI == 300

\* ------------------------------------------------------------------------
\* Bounds of the model
\* ------------------------------------------------------------------------

\* Texts handed to chunk_data hold up to MaxChunks full chunks ...
MaxChunks == 3
\* ... plus or minus up to MaxSlack characters around each chunk boundary.
MaxSlack == 2
\* Fill patterns of a text or payload.
MaxSeed == 2
\* Worker threads of the pool (-t), from 1.
MaxThreads == 3
\* Pages with symbols that the scan may fail to read in one run.
MaxLost == 2

\* ------------------------------------------------------------------------
\* Helpers on sequences (balanced recursion: depth is logarithmic)
\* ------------------------------------------------------------------------

RECURSIVE FlatRange(_, _, _)
\* f[lo] \o f[lo+1] \o ... \o f[hi], for a sequence f of sequences
FlatRange(f, lo, hi) ==
    IF lo > hi THEN << >>
    ELSE IF lo = hi THEN f[lo]
    ELSE LET mid == (lo + hi) \div 2
         IN  FlatRange(f, lo, mid) \o FlatRange(f, mid + 1, hi)

\* ''.join(parts)
Join(parts) == FlatRange(parts, 1, Len(parts))

RECURSIVE SumRange(_, _, _)
\* f[lo] + ... + f[hi]
SumRange(f, lo, hi) ==
    IF lo > hi THEN 0
    ELSE IF lo = hi THEN f[lo]
    ELSE LET mid == (lo + hi) \div 2
         IN  SumRange(f, lo, mid) + SumRange(f, mid + 1, hi)

\* data[a:b] of Python, 0-based and clipped to the length
Slice(data, a, b) ==
    LET hi == IF b < Len(data) THEN b ELSE Len(data)
    IN  IF a >= hi THEN << >> ELSE SubSeq(data, a + 1, hi)

\* ------------------------------------------------------------------------
\* str.encode("utf-8") / bytes.decode("utf-8"), code points below 0x800
\* ------------------------------------------------------------------------

utf8_char(c) ==
    IF c < 128 THEN << c >>
    ELSE << 192 + (c \div 64), 128 + (c % 64) >>

utf8_encode(s) == Join([i \in 1..Len(s) |-> utf8_char(s[i])])

IsCont(b) == b >= 128 /\ b < 192

\* The code points read at byte position i: one for a lead byte, none for a
\* continuation byte (its lead byte reads it).
utf8_at(b, i) ==
    IF IsCont(b[i]) THEN << >>
    ELSE IF b[i] < 128 THEN << b[i] >>
    ELSE << (b[i] - 192) * 64 + (b[i + 1] - 128) >>

\* Well-formed: every lead byte 0xC2..0xDF is followed by exactly one
\* continuation byte, and nothing else is a continuation byte or a longer lead.
utf8_valid(b) ==
    \A i \in 1..Len(b) :
        /\ b[i] < 128 \/ IsCont(b[i]) \/ (b[i] >= 194 /\ b[i] < 224)
        /\ IsCont(b[i]) => (i > 1 /\ b[i - 1] >= 194 /\ b[i - 1] < 224)
        /\ (b[i] >= 194 /\ b[i] < 224) => (i < Len(b) /\ IsCont(b[i + 1]))

\* What a call gives: its value, or the exception it raises
Ok(v) == [ok |-> TRUE, val |-> v, error |-> "none"]
Err(kind) == [ok |-> FALSE, val |-> << >>, error |-> kind]

utf8_decode(b) ==
    IF ~utf8_valid(b) THEN Err("UnicodeDecodeError")
    ELSE Ok(Join([i \in 1..Len(b) |-> utf8_at(b, i)]))

\* ------------------------------------------------------------------------
\* base64.b64encode / base64.b64decode over the standard alphabet
\* ------------------------------------------------------------------------

PAD == 61  \* "="

B64Char(v) ==
    IF v < 26 THEN 65 + v
    ELSE IF v < 52 THEN 97 + (v - 26)
    ELSE IF v < 62 THEN 48 + (v - 52)
    ELSE IF v = 62 THEN 43 ELSE 47

B64Val(c) ==
    IF c >= 65 /\ c <= 90 THEN c - 65
    ELSE IF c >= 97 /\ c <= 122 THEN c - 97 + 26
    ELSE IF c >= 48 /\ c <= 57 THEN c - 48 + 52
    ELSE IF c = 43 THEN 62
    ELSE IF c = 47 THEN 63
    ELSE 64   \* not a data character

\* Byte i (1-based) of b, 0 past its end
ByteOr0(b, i) == IF i <= Len(b) THEN b[i] ELSE 0

b64encode(b) ==
    LET n == Len(b)
        groups == (n + 2) \div 3
        Triple(g) == ByteOr0(b, 3 * g + 1) * 65536 + ByteOr0(b, 3 * g + 2) * 256
                        + ByteOr0(b, 3 * g + 3)
        Sextet(g, k) == CASE k = 0 -> Triple(g) \div 262144
                          [] k = 1 -> (Triple(g) \div 4096) % 64
                          [] k = 2 -> (Triple(g) \div 64) % 64
                          [] OTHER -> Triple(g) % 64
        \* a sextet that holds no bit of the input is written as padding
        Out(g, k) == IF 3 * g + k > n THEN PAD ELSE B64Char(Sextet(g, k))
    IN  [j \in 1..(4 * groups) |-> Out((j - 1) \div 4, (j - 1) % 4)]

\* The quads of s up to and including the first one that holds padding:
\* binascii stops reading once the padding completes a quad.
b64decode(s) ==
    LET n == Len(s)
        quads == n \div 4
        HasPad(q) == \E k \in 1..4 : s[4 * q + k] = PAD
        PadQuads == {q \in 0..(quads - 1) : HasPad(q)}
        last == IF PadQuads = {} THEN quads - 1
                ELSE CHOOSE q \in PadQuads : \A r \in PadQuads : q <= r
        \* number of data characters of quad q
        Data(q) == IF s[4 * q + 3] = PAD THEN 2
                   ELSE IF s[4 * q + 4] = PAD THEN 3 ELSE 4
        WellFormed(q) ==
            /\ B64Val(s[4 * q + 1]) < 64 /\ B64Val(s[4 * q + 2]) < 64
            /\ s[4 * q + 3] = PAD => s[4 * q + 4] = PAD
            /\ s[4 * q + 3] # PAD => B64Val(s[4 * q + 3]) < 64
            /\ s[4 * q + 4] # PAD => B64Val(s[4 * q + 4]) < 64
        V(q, k) == IF s[4 * q + k] = PAD THEN 0 ELSE B64Val(s[4 * q + k])
        Triple(q) == V(q, 1) * 262144 + V(q, 2) * 4096 + V(q, 3) * 64 + V(q, 4)
        Bytes(q) == SubSeq(<< Triple(q) \div 65536, (Triple(q) \div 256) % 256,
                              Triple(q) % 256 >>, 1, Data(q) - 1)
    IN  IF n % 4 # 0 /\ PadQuads = {} THEN Err("binascii.Error")
        ELSE IF \E q \in 0..last : ~WellFormed(q) THEN Err("binascii.Error")
        ELSE Ok(Join([q1 \in 1..(last + 1) |-> Bytes(q1 - 1)]))

\* ------------------------------------------------------------------------
\* zlib.compress / zlib.decompress: the zlib container (RFC 1950) around a
\* single final stored deflate block (RFC 1951, 3.2.4), closed by Adler-32.
\* zlib.decompress accepts such a stream; zlib.compress itself would choose
\* Huffman-coded blocks, so the lengths here are not those of a real run.  The
\* program never looks inside the compressed bytes: what it relies on is that
\* decompress inverts compress and rejects a stream with bytes missing, which
\* the header, the length fields and the checksum decide here as they do there.
\* ------------------------------------------------------------------------

ADLER_MOD == 65521

adler_a(b) == (1 + SumRange(b, 1, Len(b))) % ADLER_MOD

adler_b(b) ==
    LET n == Len(b)
    IN  (n + SumRange([i \in 1..n |-> (n - i + 1) * b[i]], 1, n)) % ADLER_MOD

\* The checksum as the four bytes the stream ends with (big-endian b, a)
adler32_bytes(b) ==
    << adler_b(b) \div 256, adler_b(b) % 256, adler_a(b) \div 256, adler_a(b) % 256 >>

zlib_compress(b) ==
    LET n == Len(b)
    IN  << 120, 156, 1, n % 256, n \div 256, 255 - (n % 256), 255 - (n \div 256) >>
            \o b \o adler32_bytes(b)

zlib_decompress(s) ==
    LET n == Len(s)
        len == s[4] + 256 * s[5]
        nlen == s[6] + 256 * s[7]
        data == SubSeq(s, 8, 7 + len)
    IN  IF n < 2 THEN Err("zlib.error")                       \* truncated stream
        ELSE IF (s[1] * 256 + s[2]) % 31 # 0 \/ s[1] % 16 # 8
                  \/ s[1] \div 16 > 7 \/ (s[2] \div 32) % 2 = 1
             THEN Err("zlib.error")                           \* incorrect header check
        ELSE IF n < 7 THEN Err("zlib.error")                  \* truncated stream
        ELSE IF s[3] % 8 # 1 THEN Err("zlib.error")           \* not a final stored block
        ELSE IF len + nlen # 65535 THEN Err("zlib.error")     \* invalid stored block lengths
        ELSE IF n < 7 + len + 4 THEN Err("zlib.error")        \* truncated stream
        ELSE IF SubSeq(s, 8 + len, 11 + len) # adler32_bytes(data)
             THEN Err("zlib.error")                           \* incorrect data check
        ELSE Ok(data)                                         \* trailing bytes are ignored

\* ------------------------------------------------------------------------
\* State
\* ------------------------------------------------------------------------

VARIABLES
    pc,         \* where the run stands
    variant,    \* "single": Encode_to_QRCode.py, "rows": testwebtoqr.py
    payload,    \* the text to archive (full_html / raw before .encode())
    data,       \* the encoded text handed to chunk_data (b64)
    chunks,     \* what chunk_data returned
    threads,    \* args.threads, the pool's max_workers
    futures,    \* the pool's futures, in submission order
    work_queue, \* submitted work items no worker has taken yet
    worker,     \* worker[w]: the item worker thread w is running, 0 when idle
    fs,         \* futures Executor.map has not yielded yet
    buffers,    \* the PNG buffers main collected
    completed,  \* history: the work items in the order the workers finished them
    doc,        \* the pages of the PDF, in the order of showPage()
    page_num,   \* extract_qr_from_pdf: the loop variable
    scan_dpi,   \* the dpi the last page was rasterized at, 0 before any scan
    scanned,    \* what decode(img) gave for each page scanned so far
    qr_chunks,  \* extract_qr_from_pdf: the (page number, data) tuples
    result,     \* the list extract_qr_from_pdf returned
    log,        \* what the decoder printed
    raised,     \* the exception that left the decoder's main, "none" if none:
                \* main returns early or catches Exception, it never raises
    out_file    \* the output file: << >> while it does not exist, else << content >>

vars == << pc, variant, payload, data, chunks, threads, futures, work_queue, worker,
           fs, buffers, completed, doc, page_num, scan_dpi, scanned, qr_chunks, result, log,
           raised, out_file >>

encoderVars == << payload, data, chunks >>
poolVars == << threads, futures, work_queue, worker, fs, buffers, completed >>
decoderVars == << page_num, scan_dpi, scanned, qr_chunks, result, log, raised, out_file >>

\* ------------------------------------------------------------------------
\* compress_html, chunk_data
\* ------------------------------------------------------------------------

\* Encode_to_QRCode.py: base64.b64encode(zlib.compress(full_html.encode("utf-8")))
\* (.decode("utf-8") of base64 text gives the same code points)
compress_html(full_html) == b64encode(zlib_compress(utf8_encode(full_html)))

\* range(0, n, step) as the sequence of its values
Range0(n, step) == [k \in 1..((n + step - 1) \div step) |-> (k - 1) * step]

\* A slice one character short: data[i:i + CHUNK_SIZE - 1]
chunk_data_short(data_str) ==
    LET starts == Range0(Len(data_str), CHUNK_SIZE)
    IN  [k \in 1..Len(starts) |-> Slice(data_str, starts[k], starts[k] + CHUNK_SIZE - 1)]

\* [data[i:i + CHUNK_SIZE] for i in range(0, len(data), CHUNK_SIZE)]
chunk_data(data_str) ==
    LET starts == Range0(Len(data_str), CHUNK_SIZE)
    IN  [k \in 1..Len(starts) |-> Slice(data_str, starts[k], starts[k] + CHUNK_SIZE)]

\* A range that runs one past the end: range(0, len(data_str) + 1, CHUNK_SIZE)
testwebtoqr_chunk_data_trailing(data_str) ==
    LET starts == Range0(Len(data_str) + 1, testwebtoqr_CHUNK_SIZE)
    IN  [k \in 1..Len(starts) |->
            Slice(data_str, starts[k], starts[k] + testwebtoqr_CHUNK_SIZE)]

\* testwebtoqr.py: the same comprehension over its own CHUNK_SIZE
testwebtoqr_chunk_data(data_str) ==
    LET starts == Range0(Len(data_str), testwebtoqr_CHUNK_SIZE)
    IN  [k \in 1..Len(starts) |->
            Slice(data_str, starts[k], starts[k] + testwebtoqr_CHUNK_SIZE)]

\* The chunk size of the encoder in use
ChunkSizeOf(v) == IF v = "single" THEN CHUNK_SIZE ELSE testwebtoqr_CHUNK_SIZE

\* ------------------------------------------------------------------------
\* QR rendering
\* ------------------------------------------------------------------------

\* A QR symbol holds the bytes of its text (qr.add_data encodes a str as UTF-8)
\* at error correction level H with a 4-module border.
create_qr_image(chunk) == [symbol |-> utf8_encode(chunk), level |-> "H", border |-> 4]

make_qr(data_str) == [symbol |-> utf8_encode(data_str), level |-> "H", border |-> 4]

\* testwebtoqr.py: the symbol as a PNG in memory, tagged with the writer's DPI
qr_to_buffer(data_str) == [png |-> make_qr(data_str), dpi |-> testwebtoqr_DPI]

\* ------------------------------------------------------------------------
\* The encoders' main, up to the chunks
\* ------------------------------------------------------------------------

\* Encode_to_QRCode.py main: b64 = compress_html(full_html)
MainCompress ==
    /\ pc = "start" /\ variant = "single"
    /\ pc' = "compressed"
    /\ data' = compress_html(payload)
    /\ UNCHANGED << variant, payload, chunks, poolVars, doc, decoderVars >>

\* Encode_to_QRCode.py main: chunks = chunk_data(b64)
MainChunk ==
    /\ pc = "compressed" /\ variant = "single"
    /\ pc' = "chunked"
    /\ chunks' = chunk_data(data)
    /\ UNCHANGED << variant, payload, data, poolVars, doc, decoderVars >>

\* testwebtoqr.py main: compressed = zlib.compress(raw);
\* b64 = base64.b64encode(compressed).decode(), raw being the page's bytes
testwebtoqr_MainCompress ==
    /\ pc = "start" /\ variant = "rows"
    /\ pc' = "compressed"
    /\ data' = b64encode(zlib_compress(utf8_encode(payload)))
    /\ UNCHANGED << variant, payload, chunks, poolVars, doc, decoderVars >>

\* testwebtoqr.py main: chunks = chunk_data(b64)
testwebtoqr_MainChunk ==
    /\ pc = "compressed" /\ variant = "rows"
    /\ pc' = "chunked"
    /\ chunks' = testwebtoqr_chunk_data(data)
    /\ UNCHANGED << variant, payload, data, poolVars, doc, decoderVars >>

\* ------------------------------------------------------------------------
\* testwebtoqr.py main: rendering in a ThreadPoolExecutor
\* ------------------------------------------------------------------------

\* The future Executor.map yields next; it reversed the list, so fs.pop()
\* without the reversal would give the last one submitted.
NextFuture_unreversed(pending) == pending[Len(pending)]

\* result_iterator: fs.reverse(), then fs.pop() per item: submission order
NextFuture(pending) == pending[1]

Remove(seq, x) == SelectSeq(seq, LAMBDA y : y # x)

\* ex.map(qr_to_buffer, chunks): every chunk is submitted before the first
\* result is asked for
PoolSubmit ==
    /\ pc = "chunked" /\ variant = "rows"
    /\ pc' = "collect"
    /\ futures' = [k \in 1..Len(chunks) |-> [state |-> "PENDING", result |-> << >>]]
    /\ work_queue' = [k \in 1..Len(chunks) |-> k]
    /\ fs' = [k \in 1..Len(chunks) |-> k]
    /\ worker' = [w \in 1..threads |-> 0]
    /\ buffers' = << >>
    /\ completed' = << >>
    /\ UNCHANGED << variant, encoderVars, threads, doc, decoderVars >>

\* An idle worker thread takes the oldest work item
WorkerTake(w) ==
    /\ pc = "collect"
    /\ worker[w] = 0
    /\ work_queue # << >>
    /\ worker' = [worker EXCEPT ![w] = Head(work_queue)]
    /\ work_queue' = Tail(work_queue)
    /\ futures' = [futures EXCEPT ![Head(work_queue)].state = "RUNNING"]
    /\ UNCHANGED << pc, variant, encoderVars, threads, fs, buffers, completed, doc,
                    decoderVars >>

\* A worker thread finishes qr_to_buffer(chunk) and sets the future's result
WorkerFinish(w) ==
    /\ pc = "collect"
    /\ worker[w] # 0
    /\ futures' = [futures EXCEPT ![worker[w]] =
                      [state |-> "FINISHED", result |-> << qr_to_buffer(chunks[worker[w]]) >>]]
    /\ worker' = [worker EXCEPT ![w] = 0]
    /\ completed' = Append(completed, worker[w])
    /\ UNCHANGED << pc, variant, encoderVars, threads, work_queue, fs, buffers, doc,
                    decoderVars >>

\* for i, buf in enumerate(ex.map(...)): buffers.append(buf); the main thread
\* blocks in result() until the future it waits for has finished
MainCollect ==
    /\ pc = "collect"
    /\ fs # << >>
    /\ LET f == NextFuture(fs)
       IN  /\ futures[f].state = "FINISHED"
           /\ buffers' = Append(buffers, futures[f].result[1])
           /\ fs' = Remove(fs, f)
    /\ UNCHANGED << pc, variant, encoderVars, threads, futures, work_queue, worker,
                    completed, doc, decoderVars >>

\* The with block ends: shutdown(wait=True)
PoolExit ==
    /\ pc = "collect"
    /\ fs = << >>
    /\ \A w \in 1..threads : worker[w] = 0
    /\ pc' = "write"
    /\ UNCHANGED << variant, encoderVars, poolVars, doc, decoderVars >>

\* ------------------------------------------------------------------------
\* write_pdf
\* ------------------------------------------------------------------------

\* Encode_to_QRCode.py, iteration i of the loop (enumerate from 1): one QR
\* image, the caption "Page i", showPage()
single_page(i, chunk) ==
    [kind |-> "data",
     images |-> << [row |-> 0, image |-> create_qr_image(chunk), dpi |-> DPI] >>,
     caption |-> << i >>,
     stats |-> << >>]

\* testwebtoqr.py: the statistics and instructions page
meta_page(stats) == [kind |-> "meta", images |-> << >>, caption |-> << >>, stats |-> stats]

\* testwebtoqr.py: pages = [buffers[i:i+ROWS] for i in range(0, len(buffers), ROWS)]
page_groups(bufs) ==
    LET starts == Range0(Len(bufs), ROWS)
    IN  [g \in 1..Len(starts) |-> Slice(bufs, starts[g], starts[g] + ROWS)]

\* The row of the idx-th image of a group, had the code counted rows downwards
row_of_downwards(idx) == idx

\* row = ROWS - 1 - idx; y = y0 + row * FINAL_W_IN * inch, y growing upwards
row_of(idx) == ROWS - 1 - idx

\* testwebtoqr.py: one page of up to ROWS images inside the crop marks
rows_page(group) ==
    [kind |-> "data",
     images |-> [k \in 1..Len(group) |->
                    [row |-> row_of(k - 1), image |-> group[k].png, dpi |-> group[k].dpi]],
     caption |-> << >>,
     stats |-> << >>]

\* Encode_to_QRCode.py write_pdf: canvas.Canvas(output_pdf, ...)
WriteOpen ==
    /\ pc = "chunked" /\ variant = "single"
    /\ pc' = "pages"
    /\ doc' = << >>
    /\ UNCHANGED << variant, encoderVars, poolVars, decoderVars >>

\* testwebtoqr.py write_pdf: the canvas and its first page, up to showPage()
WriteMeta ==
    /\ pc = "write" /\ variant = "rows"
    /\ pc' = "pages"
    /\ doc' = << meta_page(<< Len(utf8_encode(payload)),
                              Len(zlib_compress(utf8_encode(payload))),
                              Len(data),
                              Len(testwebtoqr_chunk_data(data)) >>) >>
    /\ UNCHANGED << variant, encoderVars, poolVars, decoderVars >>

\* Encode_to_QRCode.py write_pdf: one iteration of the loop over the chunks
WritePage ==
    /\ pc = "pages" /\ variant = "single"
    /\ Len(doc) < Len(chunks)
    /\ doc' = Append(doc, single_page(Len(doc) + 1, chunks[Len(doc) + 1]))
    /\ UNCHANGED << pc, variant, encoderVars, poolVars, decoderVars >>

\* testwebtoqr.py write_pdf: one iteration of the loop over the groups
WriteGroup ==
    /\ pc = "pages" /\ variant = "rows"
    /\ Len(doc) - 1 < Len(page_groups(buffers))
    /\ doc' = Append(doc, rows_page(page_groups(buffers)[Len(doc)]))
    /\ UNCHANGED << pc, variant, encoderVars, poolVars, decoderVars >>

\* Encode_to_QRCode.py write_pdf: c.save() after the last chunk's page
WriteSave ==
    /\ pc = "pages" /\ variant = "single"
    /\ Len(doc) = Len(chunks)
    /\ pc' = "encoded"
    /\ UNCHANGED << variant, encoderVars, poolVars, doc, decoderVars >>

\* testwebtoqr.py write_pdf: c.save() after the last group's page
testwebtoqr_WriteSave ==
    /\ pc = "pages" /\ variant = "rows"
    /\ Len(doc) - 1 = Len(page_groups(buffers))
    /\ pc' = "encoded"
    /\ UNCHANGED << variant, encoderVars, poolVars, doc, decoderVars >>

\* ------------------------------------------------------------------------
\* Decode_from_QRcode.py
\* ------------------------------------------------------------------------

\* The symbols drawn on a page
SymbolsOf(page) == [k \in 1..Len(page.images) |-> page.images[k].image.symbol]

\* pyzbar's decode(img): no symbol when the raster cannot be read (always so
\* for a page without symbols), else the page's symbols in an order the
\* library does not specify.  The code reads codes[0] alone, so a reading
\* that finds only some of the symbols adds no behaviour to these.
DecodeOutcomes(page) ==
    LET syms == SymbolsOf(page)
        n == Len(syms)
        Orders == {f \in [1..n -> 1..n] : \A a, b \in 1..n : f[a] = f[b] => a = b}
    IN  {<< >>} \cup {[k \in 1..n |-> syms[f[k]]] : f \in Orders}

\* Pages with symbols on them that gave none when scanned
LostPages(sc) == {p \in 1..Len(sc) : sc[p] = << >> /\ doc[p].images # << >>}

Printed(tag, page, text) == [tag |-> tag, page |-> page, text |-> text]

\* The number printed in the warning, had the code printed the loop variable
warn_page_zero_based(n) == n

\* f"[WARN] Page {page_num + 1}: No QR code found"
warn_page(n) == n + 1

\* Lexicographic order of two strings
StrLess(a, b) ==
    LET m == IF Len(a) < Len(b) THEN Len(a) ELSE Len(b)
    IN  \E i \in 1..(m + 1) :
            /\ \A j \in 1..(i - 1) : a[j] = b[j]
            /\ IF i <= m THEN a[i] < b[i] ELSE Len(a) < Len(b)

\* Ordering the tuples by their text alone
TupleLess_by_data(x, y) == StrLess(x[2], y[2])

\* Python's order of (page number, data) tuples
TupleLess(x, y) == x[1] < y[1] \/ (x[1] = y[1] /\ StrLess(x[2], y[2]))

\* list.sort(): ascending and stable
Sorted(s) ==
    LET n == Len(s)
        Rank(k) == Cardinality({j \in 1..n : TupleLess(s[j], s[k])})
                     + Cardinality({j \in 1..(k - 1) :
                                       ~TupleLess(s[j], s[k]) /\ ~TupleLess(s[k], s[j])})
    IN  [p \in 1..n |-> s[CHOOSE k \in 1..n : Rank(k) = p - 1]]

\* zlib.decompress(base64.b64decode(''.join(chunks))).decode("utf-8")
decode_chunks_to_data(chunks_) ==
    LET combined == Join(chunks_)
        raw == b64decode(combined)
        plain == IF raw.ok THEN zlib_decompress(raw.val) ELSE raw
    IN  IF plain.ok THEN utf8_decode(plain.val) ELSE plain

\* The try block, had it opened the output file before decoding
main_try_open_first(chunks_) ==
    LET decoded == decode_chunks_to_data(chunks_)
    IN  IF decoded.ok
        THEN [file |-> << decoded.val >>, printed |-> Printed("saved", 0, "")]
        ELSE [file |-> << << >> >>, printed |-> Printed("error", 0, decoded.error)]

\* main's try block: decode, then open and write the file; any exception is
\* caught and printed.  (Run as a script, as the usage line has it: os is
\* imported before main is called, and webbrowser.open follows the write.)
main_try(chunks_) ==
    LET decoded == decode_chunks_to_data(chunks_)
    IN  IF decoded.ok
        THEN [file |-> << decoded.val >>, printed |-> Printed("saved", 0, "")]
        ELSE [file |-> << >>, printed |-> Printed("error", 0, decoded.error)]

\* extract_qr_from_pdf: fitz.open(pdf_path); qr_chunks = []
ExtractOpen ==
    /\ pc = "encoded"
    /\ pc' = "scan"
    /\ page_num' = 0
    /\ qr_chunks' = << >>
    /\ UNCHANGED << variant, encoderVars, poolVars, doc, scan_dpi, scanned, result, log,
                    raised, out_file >>

\* extract_qr_from_pdf: one iteration of the loop over the pages
ExtractPage ==
    /\ pc = "scan"
    /\ page_num < Len(doc)
    /\ \E codes \in DecodeOutcomes(doc[page_num + 1]) :
          /\ (codes = << >> /\ doc[page_num + 1].images # << >>)
                => Cardinality(LostPages(scanned)) < MaxLost
          /\ scanned' = Append(scanned, codes)
          /\ IF codes # << >>
             THEN /\ qr_chunks' = Append(qr_chunks,
                                         << page_num + 1, utf8_decode(codes[1]).val >>)
                  /\ UNCHANGED log
             ELSE /\ log' = Append(log, Printed("WARN", warn_page(page_num), ""))
                  /\ UNCHANGED qr_chunks
    /\ scan_dpi' = SCAN_DPI
    /\ page_num' = page_num + 1
    /\ UNCHANGED << pc, variant, encoderVars, poolVars, doc, result, raised, out_file >>

\* extract_qr_from_pdf: qr_chunks.sort(); return [chunk for _, chunk in qr_chunks]
ExtractReturn ==
    /\ pc = "scan"
    /\ page_num = Len(doc)
    /\ pc' = "extracted"
    /\ result' = [k \in 1..Len(qr_chunks) |-> Sorted(qr_chunks)[k][2]]
    /\ UNCHANGED << variant, encoderVars, poolVars, doc, page_num, scan_dpi, scanned,
                    qr_chunks, log, raised, out_file >>

\* main: if not chunks: print("[-] No QR codes found."); return
MainNoChunks ==
    /\ pc = "extracted"
    /\ result = << >>
    /\ pc' = "done"
    /\ log' = Append(log, Printed("none found", 0, ""))
    /\ UNCHANGED << variant, encoderVars, poolVars, doc, page_num, scan_dpi, scanned,
                    qr_chunks, result, raised, out_file >>

\* main: the try block and its except clause
MainTry ==
    /\ pc = "extracted"
    /\ result # << >>
    /\ pc' = "done"
    /\ out_file' = main_try(result).file
    /\ log' = Append(log, main_try(result).printed)
    /\ UNCHANGED << variant, encoderVars, poolVars, doc, page_num, scan_dpi, scanned,
                    qr_chunks, result, raised >>

\* ------------------------------------------------------------------------
\* Specifications
\* ------------------------------------------------------------------------

NoPool ==
    /\ futures = << >> /\ work_queue = << >> /\ worker = << >> /\ fs = << >>
    /\ buffers = << >> /\ completed = << >>

NoDecoder ==
    /\ page_num = 0 /\ scan_dpi = 0 /\ scanned = << >> /\ qr_chunks = << >>
    /\ result = << >> /\ log = << >> /\ raised = "none" /\ out_file = << >>

\* A text over the base64 alphabet whose characters differ across chunk
\* boundaries
Text(len, seed) == [i \in 1..len |-> B64Char((i * (2 * seed + 1) + seed) % 64)]

\* Lengths around every chunk boundary of either encoder
TextLens ==
    { k * cs + d - MaxSlack :
        k \in 0..MaxChunks, cs \in {CHUNK_SIZE, testwebtoqr_CHUNK_SIZE},
        d \in 0..(2 * MaxSlack) } \cap Nat

\* SpecChunk: chunk_data of either encoder on an arbitrary printable text
InitChunk ==
    /\ pc = "compressed"
    /\ variant \in {"single", "rows"}
    /\ payload = << >>
    /\ \E len \in TextLens, seed \in 0..MaxSeed : data = Text(len, seed)
    /\ chunks = << >>
    /\ threads = 1
    /\ doc = << >>
    /\ NoPool /\ NoDecoder

NextChunk == MainChunk \/ testwebtoqr_MainChunk

SpecChunk == InitChunk /\ [][NextChunk]_vars

\* SpecPool: testwebtoqr.py main from its chunks to its buffers, for every
\* thread count and every schedule of the worker threads
PoolLens == {k * testwebtoqr_CHUNK_SIZE + d : k \in 0..MaxChunks, d \in 0..1}

InitPool ==
    /\ pc = "chunked"
    /\ variant = "rows"
    /\ payload = << >>
    /\ \E len \in PoolLens, seed \in 0..MaxSeed : data = Text(len, seed)
    /\ chunks = testwebtoqr_chunk_data(data)
    /\ threads \in 1..MaxThreads
    /\ doc = << >>
    /\ NoPool /\ NoDecoder

NextPool ==
    \/ PoolSubmit
    \/ \E w \in 1..threads : WorkerTake(w)
    \/ \E w \in 1..threads : WorkerFinish(w)
    \/ MainCollect
    \/ PoolExit

SpecPool == InitPool /\ [][NextPool]_vars

\* Spec: a page is encoded by either encoder (testwebtoqr.py with its default
\* of one thread), and the PDF is then decoded by Decode_from_QRcode.py.
\* A payload of code points: seed 0 is plain ASCII, the others carry a
\* two-byte character now and then.
Payload(len, seed) ==
    [i \in 1..len |->
        IF seed > 0 /\ (i + seed) % 7 = 0 THEN 233
        ELSE 97 + ((i * (2 * seed + 1) + seed) % 26)]

\* Bytes of compressed stream one full chunk of the single-page encoder holds
ChunkBytes == (3 * CHUNK_SIZE) \div 4

\* Lengths whose encoded text ends exactly on a chunk boundary, or just past it
PayloadLens ==
    {0, 1} \cup
    { q * ChunkBytes - Len(zlib_compress(<< >>)) + d : q \in 1..MaxChunks, d \in 0..1 }

Init ==
    /\ pc = "start"
    /\ variant \in {"single", "rows"}
    /\ \E len \in PayloadLens, seed \in 0..MaxSeed : payload = Payload(len, seed)
    /\ data = << >>
    /\ chunks = << >>
    /\ threads = 1
    /\ doc = << >>
    /\ NoPool /\ NoDecoder

Next ==
    \/ MainCompress
    \/ MainChunk
    \/ testwebtoqr_MainCompress
    \/ testwebtoqr_MainChunk
    \/ PoolSubmit
    \/ \E w \in 1..threads : WorkerTake(w)
    \/ \E w \in 1..threads : WorkerFinish(w)
    \/ MainCollect
    \/ PoolExit
    \/ WriteOpen
    \/ WriteMeta
    \/ WritePage
    \/ WriteGroup
    \/ WriteSave
    \/ testwebtoqr_WriteSave
    \/ ExtractOpen
    \/ ExtractPage
    \/ ExtractReturn
    \/ MainNoChunks
    \/ MainTry

Spec == Init /\ [][Next]_vars

\* ------------------------------------------------------------------------
\* Properties
\* ------------------------------------------------------------------------

\* Where chunk k starts in the text, by the lengths of the chunks before it
StartOf(cs, k) == SumRange([j \in 1..Len(cs) |-> Len(cs[j])], 1, k - 1)

Extracted == pc \in {"extracted", "done"}

\* An error of this kind left main or was printed by it
Reported(kind) ==
    \/ raised = kind
    \/ \E e \in 1..Len(log) : log[e].tag = "error" /\ log[e].text = kind

\* C1 (round trip, one QR per page): when every page of the document written
\* by Encode_to_QRCode.py decodes, decode_chunks_to_data of what
\* extract_qr_from_pdf returned is exactly the payload, the empty one included.
C1_RoundTrip ==
    (variant = "single" /\ Extracted /\ LostPages(scanned) = {}) =>
        decode_chunks_to_data(result) = Ok(payload)

C1_Witness ==
    /\ variant = "single" /\ pc = "done" /\ LostPages(scanned) = {}
    /\ Len(doc) >= 3
    /\ \E i \in 1..Len(payload) : payload[i] > 127
    /\ out_file = << payload >>

\* C2 (missing-page detection), as claimed: once a page that holds a chunk
\* gave no symbol, the run ends with a MissingChunkError and no output file.
C2_MissingChunkError ==
    (pc = "done" /\ LostPages(scanned) # {}) =>
        (Reported("MissingChunkError") /\ out_file = << >>)

\* C3 (chunk coverage): the chunks are contiguous and non-overlapping slices
\* of the encoded text, their concatenation in index order is the text, and
\* their lengths add up to its length.
C3_ChunkCoverage ==
    pc = "chunked" =>
        /\ Join(chunks) = data
        /\ SumRange([j \in 1..Len(chunks) |-> Len(chunks[j])], 1, Len(chunks)) = Len(data)
        /\ \A k \in 1..Len(chunks) :
              chunks[k] = Slice(data, StartOf(chunks, k), StartOf(chunks, k) + Len(chunks[k]))

C3_Witness ==
    /\ pc = "chunked" /\ variant = "single"
    /\ Len(chunks) = 3
    /\ Len(chunks[3]) = 1
    /\ chunks[1] # chunks[2]

\* C4 (chunk size bound): every chunk but the last has exactly CHUNK_SIZE
\* characters, the last has between 1 and CHUNK_SIZE, there are no chunks
\* exactly when the text is empty, and a text of 3 * CHUNK_SIZE characters
\* gives 3 chunks, the last one full.
C4_ChunkSizeBound ==
    pc = "chunked" =>
        LET size == ChunkSizeOf(variant)
            n == Len(chunks)
        IN  /\ \A k \in 1..(n - 1) : Len(chunks[k]) = size
            /\ n > 0 => (Len(chunks[n]) >= 1 /\ Len(chunks[n]) <= size)
            /\ (n = 0) <=> (Len(data) = 0)
            /\ Len(data) = 3 * size => (n = 3 /\ Len(chunks[3]) = size)

C4_Witness ==
    /\ pc = "chunked" /\ variant = "rows"
    /\ Len(data) = 3 * testwebtoqr_CHUNK_SIZE
    /\ Len(chunks) = 3

\* C5 (positional tagging), as claimed: from a document of two QR rows per
\* page behind a metadata page, all of whose pages decode,
\* extract_qr_from_pdf returns every chunk exactly once, in index order.
C5_EveryChunkInOrder ==
    (variant = "rows" /\ Extracted /\ LostPages(scanned) = {}) => result = chunks

\* C6 (partial failure of a page): a page that gives no symbol is reported
\* with its 1-based number, adds nothing to the sequence and does not stop the
\* scan; every page is processed and every skipped page is logged once.
C6_PartialFailure ==
    /\ Extracted => Len(scanned) = Len(doc)
    /\ pc \in {"scan", "extracted", "done"} =>
          /\ Len(scanned) = page_num
          /\ \A p \in 1..Len(scanned) :
                LET tuples == {t \in 1..Len(qr_chunks) : qr_chunks[t][1] = p}
                    warnings == {e \in 1..Len(log) : log[e] = Printed("WARN", p, "")}
                IN  IF scanned[p] = << >>
                    THEN tuples = {} /\ Cardinality(warnings) = 1
                    ELSE /\ warnings = {}
                         /\ Cardinality(tuples) = 1
                         /\ \A t \in tuples :
                               qr_chunks[t][2] = utf8_decode(scanned[p][1]).val
          /\ Cardinality({e \in 1..Len(log) : log[e].tag = "WARN"})
                = Cardinality({p \in 1..Len(scanned) : scanned[p] = << >>})

C6_Witness ==
    /\ pc = "extracted"
    /\ \E p, q \in 1..Len(scanned) :
          /\ p < q
          /\ scanned[p] = << >> /\ doc[p].images # << >>
          /\ scanned[q] # << >>
          /\ Printed("WARN", p, "") \in {log[e] : e \in 1..Len(log)}

C8_ResolutionCoupling ==
    scan_dpi # 0 =>
        \A p \in 1..Len(doc) : \A k \in 1..Len(doc[p].images) :
            doc[p].images[k].dpi = scan_dpi

\* C9 (parallel rendering keeps chunk order): for every thread count and every
\* schedule, main collects the buffers in chunk order, and after the pool has
\* ended buffer i is the rendering of chunk i, for every chunk.
C9_OrderKept ==
    /\ pc \in {"collect", "write"} =>
          /\ Len(buffers) <= Len(chunks)
          /\ \A i \in 1..Len(buffers) : buffers[i] = qr_to_buffer(chunks[i])
    /\ pc = "write" => Len(buffers) = Len(chunks)

\* Three threads finished the chunks in an order other than the chunks'
C9_Witness ==
    /\ pc = "write"
    /\ threads >= 2
    /\ Len(chunks) >= 3
    /\ Len(buffers) = Len(chunks)
    /\ \E i \in 1..(Len(completed) - 1) : completed[i] > completed[i + 1]

\* C10 (layout keeps chunk order in page order): one QR per page: n pages,
\* page i holds chunk i-1 alone under the caption "Page i"; two rows: page 1 is
\* the metadata page without a symbol, there are 1 + ceil(n/2) pages, chunk k
\* is on page 2 + (k div 2) in slot k mod 2, slot 0 in the upper row; either
\* way every chunk is placed exactly once.
C10_Layout ==
    pc = "encoded" =>
        LET n == Len(chunks)
            placed == SumRange([p \in 1..Len(doc) |-> Len(doc[p].images)], 1, Len(doc))
        IN  /\ placed = n
            /\ variant = "single" =>
                  /\ Len(doc) = n
                  /\ \A i \in 1..n :
                        /\ SymbolsOf(doc[i]) = << utf8_encode(chunks[i]) >>
                        /\ doc[i].caption = << i >>
            /\ variant = "rows" =>
                  /\ Len(doc) = 1 + ((n + 1) \div 2)
                  /\ doc[1].kind = "meta" /\ doc[1].images = << >>
                  /\ \A k \in 0..(n - 1) :
                        LET img == doc[2 + (k \div 2)].images[(k % 2) + 1]
                        IN  /\ img.image.symbol = utf8_encode(chunks[k + 1])
                            /\ img.row = (ROWS - 1) - (k % 2)

C10_Witness ==
    /\ pc = "encoded" /\ variant = "rows"
    /\ Len(chunks) = 3
    /\ Len(doc) = 3
    /\ Len(doc[3].images) = 1

====
